---- MODULE Spec2Model ----
(***************************************************************************)
(* Job lifecycle and progress distribution of the drum transcription       *)
(* service: the job ledger, the Celery task queue with late                *)
(* acknowledgement, the ML worker's process_audio pipeline, the push       *)
(* channel of one WebSocket connection, and the React client (useWebSocket,*)
(* useJobStatus, useJobResult, ProcessingStatus, App).                     *)
(*                                                                         *)
(* One job id is modelled: every piece of state below is the state of that *)
(* job (its ledger row, its queue item, its channel, the client watching   *)
(* it).  Nothing in the program is shared between two job ids.             *)
(***************************************************************************)
EXTENDS Integers, Sequences, FiniteSets, TLC

\* ------------------------------------------------------------------ bounds
MaxCrashes == 1     \* worker process crashes in one behaviour
MaxExpiries == 1    \* lease expiries while the holder is still running
MaxEnqueues == 2    \* enqueue(job_id) calls in one behaviour
MaxDrops == 2       \* network losses of the push connection
MaxResultQueries == 2  \* result queries the client issues (first try and retries)
MaxConnects == 1    \* calls of the connect() the hook returns to its caller

Workers == {"w1", "w2"}
NoWorker == "none"
NoStage == "none"
NoMsg == ""
FailureMsg == "unsupported sample rate"
InvalidTransitionMsg == "InvalidTransition"

\* str(e) of the exception a pipeline step raises: a message, or the empty string
\* of an exception raised without arguments.
FailureMsgs == {FailureMsg, NoMsg}

\* ------------------------------------------------------------------ state
VARIABLES
  ledger,         \* the job's row of transcription_jobs
  queued,         \* the job's item is visible in the queue
  lease,          \* the worker holding the unacknowledged delivery, or NoWorker
  worker,         \* per worker: position in process_audio and the pending exception
  artifactWrites, \* how many times store_results wrote the job's export set
  crashes, expiries, enqueues,
  subscribed,     \* the gateway relays the job's channel to the open connection
  inbox,          \* messages sent on the connection and not yet received
  srvClosed,      \* the gateway closed the connection after the terminal message
  sub2,           \* a second subscriber's connection: idle, subscribed or closed
  inbox2,         \* messages sent on the second connection and not yet received
  transitions,    \* number of successful ledger transitions so far
  missed,         \* some transition's event was not sent on a connection
  wsState,        \* the socket of ws.current: connecting, open or closed
  reconnectTimer, \* number of pending reconnect timeouts
  mounted,        \* the component using the hooks is mounted (the effect is live)
  isConnected,    \* useWebSocket's isConnected state
  orphans,        \* sockets connecting or open that ws.current no longer holds
  closing,        \* sockets disconnect() closed whose close event is still to come
  connects,
  drops,
  observed,       \* the updates onmessage has handed over (successive lastUpdate)
  clientJob,      \* App's currentJob
  jobStatus,      \* the data of the ['job', id] query
  pollInFlight,   \* a status response on its way to the client, or NoData
  resultPending,  \* a result query is in flight
  resultData,     \* the data of the ['job-result', id] query
  resultQueries

bvars == <<ledger, queued, lease, worker, artifactWrites, crashes, expiries, enqueues>>
pvars == <<subscribed, inbox, srvClosed>>
svars == <<sub2, inbox2>>
tvars == <<transitions, missed>>
hvars == <<mounted, isConnected, orphans, closing, connects>>
cvars == <<wsState, reconnectTimer, hvars, drops, observed, clientJob, jobStatus, pollInFlight,
           resultPending, resultData, resultQueries>>
vars == <<bvars, pvars, svars, tvars, cvars>>

\* ------------------------------------------------------------------ ledger
Statuses == {"pending", "uploading", "validating", "processing", "completed", "error"}

Terminal(s) == s \in {"completed", "error"}

\* pending < uploading < validating < processing < completed
StatusRank(s) ==
  CASE s = "pending" -> 0
    [] s = "uploading" -> 1
    [] s = "validating" -> 2
    [] s = "processing" -> 3
    [] s = "completed" -> 4
    [] s = "error" -> 5

create ==
  [status |-> "pending", stage |-> NoStage, progress |-> 0,
   error_message |-> NoMsg, started_at |-> FALSE, completed_at |-> FALSE]

InvalidTransition_NoTerminalCheck(job, new_status) ==
  ~Terminal(job.status) /\ StatusRank(new_status) < StatusRank(job.status)

InvalidTransition_NoOrderCheck(job, new_status) == Terminal(job.status)

InvalidTransition(job, new_status) ==
  Terminal(job.status) \/ StatusRank(new_status) < StatusRank(job.status)

transition(job, new_status, new_stage, progress) ==
  [job EXCEPT !.status = new_status, !.stage = new_stage, !.progress = progress,
              !.started_at = TRUE,
              !.completed_at = Terminal(new_status)]

markError_ResetProgress(job, message) ==
  IF Terminal(job.status) THEN job
  ELSE [job EXCEPT !.status = "error", !.error_message = message, !.progress = 0,
                   !.started_at = TRUE, !.completed_at = TRUE]

markError(job, message) ==
  IF Terminal(job.status) THEN job
  ELSE [job EXCEPT !.status = "error", !.error_message = message,
                   !.started_at = TRUE, !.completed_at = TRUE]

\* ------------------------------------------------------------------ pipeline
\* ProcessingStage values process_audio reports, with the percentage it passes.
StageProgress_Early100(stage) ==
  CASE stage = "validating" -> 10
    [] stage = "source_separation" -> 25
    [] stage = "transcribing" -> 60
    [] stage = "generating_exports" -> 100
    [] stage = "completed" -> 100

StageProgress(stage) ==
  CASE stage = "validating" -> 10
    [] stage = "source_separation" -> 25
    [] stage = "transcribing" -> 60
    [] stage = "generating_exports" -> 85
    [] stage = "completed" -> 100

UploadProgress == 10

StatusOf(stage) ==
  CASE stage = "uploading" -> "uploading"
    [] stage = "validating" -> "validating"
    [] stage = "completed" -> "completed"
    [] OTHER -> "processing"

\* Order of the stages a job passes through.
StageRank(stage) ==
  CASE stage = NoStage -> 0
    [] stage = "uploading" -> 1
    [] stage = "validating" -> 2
    [] stage = "source_separation" -> 3
    [] stage = "transcribing" -> 4
    [] stage = "generating_exports" -> 5
    [] stage = "completed" -> 6

\* Positions in process_audio: each is the update_progress call of that name,
\* preceded by the pipeline step whose result it reports.
UpdatePcs == {"validating", "source_separation", "transcribing",
              "generating_exports", "completed"}

\* Positions that follow a pipeline step which may raise.
RaisingPcs == {"source_separation", "transcribing", "generating_exports", "save_results"}

NextPc(pc) ==
  CASE pc = "validating" -> "source_separation"
    [] pc = "source_separation" -> "transcribing"
    [] pc = "transcribing" -> "generating_exports"
    [] pc = "generating_exports" -> "save_results"
    [] pc = "save_results" -> "completed"
    [] pc = "completed" -> "done"

OnException_Swallow == "done"

\* except Exception as e: await self.handle_error(job.job_id, str(e))
OnException == "handle_error"

Idle == [pc |-> "idle", err |-> NoMsg]

Running(w) == worker[w].pc # "idle"

ActiveAttempts == {w \in Workers : Running(w)}

\* ------------------------------------------------------------------ push channel
Event(job) == [status |-> job.status, progress |-> job.progress, stage |-> job.stage]

Publish_Competing(ev) ==
  \E ok \in BOOLEAN :
    /\ IF ok /\ subscribed
       THEN /\ inbox' = Append(inbox, ev)
            /\ srvClosed' = Terminal(ev.status)
            /\ subscribed' = ~Terminal(ev.status)
            /\ missed' = missed
       ELSE /\ UNCHANGED pvars
            /\ missed' = TRUE
    /\ IF ok /\ ~subscribed /\ sub2 = "subscribed"
       THEN /\ inbox2' = Append(inbox2, ev)
            /\ sub2' = IF Terminal(ev.status) THEN "closed" ELSE sub2
       ELSE UNCHANGED svars

Publish_KeepOpen(ev) ==
  \E ok \in BOOLEAN :
    /\ IF ok /\ subscribed
       THEN /\ inbox' = Append(inbox, ev)
            /\ UNCHANGED <<srvClosed, subscribed>>
            /\ missed' = missed
       ELSE /\ UNCHANGED pvars
            /\ missed' = TRUE
    /\ IF ok /\ sub2 = "subscribed"
       THEN /\ inbox2' = Append(inbox2, ev)
            /\ sub2' = IF Terminal(ev.status) THEN "closed" ELSE sub2
       ELSE UNCHANGED svars

Publish_Duplicate(ev) ==
  \E ok \in BOOLEAN :
    /\ IF ok /\ subscribed
       THEN /\ inbox' = Append(Append(inbox, ev), ev)
            /\ srvClosed' = Terminal(ev.status)
            /\ subscribed' = ~Terminal(ev.status)
            /\ missed' = missed
       ELSE /\ UNCHANGED pvars
            /\ missed' = TRUE
    /\ IF ok /\ sub2 = "subscribed"
       THEN /\ inbox2' = Append(inbox2, ev)
            /\ sub2' = IF Terminal(ev.status) THEN "closed" ELSE sub2
       ELSE UNCHANGED svars

\* publish(channel=job_id, event): best effort; the gateway forwards the event on
\* every connection subscribed to the channel and closes a connection after a
\* terminal event.
Publish(ev) ==
  \E ok \in BOOLEAN :
    /\ IF ok /\ subscribed
       THEN /\ inbox' = Append(inbox, ev)
            /\ srvClosed' = Terminal(ev.status)
            /\ subscribed' = ~Terminal(ev.status)
            /\ missed' = missed
       ELSE /\ UNCHANGED pvars
            /\ missed' = TRUE
    /\ IF ok /\ sub2 = "subscribed"
       THEN /\ inbox2' = Append(inbox2, ev)
            /\ sub2' = IF Terminal(ev.status) THEN "closed" ELSE sub2
       ELSE UNCHANGED svars

\* ------------------------------------------------------------------ submission
Upload ==
  /\ ledger.status = "pending"
  /\ ledger' = transition(ledger, "uploading", "uploading", UploadProgress)
  /\ transitions' = transitions + 1
  /\ Publish(Event(ledger'))
  /\ UNCHANGED <<queued, lease, worker, artifactWrites, crashes, expiries, enqueues, cvars>>

\* enqueue(job_id): a no-op while the job's item is queued or in flight.
Enqueue ==
  /\ enqueues < MaxEnqueues
  /\ ledger.status # "pending"
  /\ enqueues' = enqueues + 1
  /\ queued' = (queued \/ lease = NoWorker)
  /\ UNCHANGED <<ledger, lease, worker, artifactWrites, crashes, expiries, pvars, svars, tvars, cvars>>

\* ------------------------------------------------------------------ queue and worker
\* worker_prefetch_multiplier=1, --concurrency=1: a worker takes one item at a time.
Dequeue(w) ==
  /\ queued
  /\ ~Running(w)
  /\ queued' = FALSE
  /\ lease' = w
  /\ worker' = [worker EXCEPT ![w] = [pc |-> "validating", err |-> NoMsg]]
  /\ UNCHANGED <<ledger, artifactWrites, crashes, expiries, enqueues, pvars, svars, tvars, cvars>>

\* task_acks_late=True with a visibility timeout: an unacknowledged delivery is
\* restored to the queue when its lease runs out.  Here the holder has crashed.
LeaseExpireDead ==
  /\ lease # NoWorker
  /\ ~Running(lease)
  /\ queued' = TRUE
  /\ lease' = NoWorker
  /\ UNCHANGED <<ledger, worker, artifactWrites, crashes, expiries, enqueues, pvars, svars, tvars, cvars>>

\* The same timeout while the holder is slow but still running: the broker cannot
\* tell a dead holder from a slow one.
LeaseExpireSlow ==
  /\ lease # NoWorker
  /\ Running(lease)
  /\ expiries < MaxExpiries
  /\ expiries' = expiries + 1
  /\ queued' = TRUE
  /\ lease' = NoWorker
  /\ UNCHANGED <<ledger, worker, artifactWrites, crashes, enqueues, pvars, svars, tvars, cvars>>

\* await self.update_progress(job.job_id, stage, percentage)
UpdateProgress(w) ==
  /\ worker[w].pc \in UpdatePcs
  /\ LET stage == worker[w].pc IN
     IF InvalidTransition(ledger, StatusOf(stage))
     THEN /\ worker' = [worker EXCEPT ![w] = [pc |-> OnException, err |-> InvalidTransitionMsg]]
          /\ UNCHANGED <<ledger, pvars, svars, tvars>>
     ELSE /\ ledger' = transition(ledger, StatusOf(stage), stage, StageProgress(stage))
          /\ transitions' = transitions + 1
          /\ Publish(Event(ledger'))
          /\ worker' = [worker EXCEPT ![w].pc = NextPc(stage)]
  /\ UNCHANGED <<queued, lease, artifactWrites, crashes, expiries, enqueues, cvars>>

\* validate_audio, separate_drums, transcribe_drums, generate_exports or
\* save_results raises.
StepFails(w) ==
  /\ worker[w].pc \in RaisingPcs
  /\ \E m \in FailureMsgs :
       worker' = [worker EXCEPT ![w] = [pc |-> OnException, err |-> m]]
  /\ UNCHANGED <<ledger, queued, lease, artifactWrites, crashes, expiries, enqueues, pvars, svars, tvars, cvars>>

\* await self.save_results(job.job_id, exports): one put_object per format under
\* the key processed/{job_id}/result.{format}.
SaveResults(w) ==
  /\ worker[w].pc = "save_results"
  /\ artifactWrites' = artifactWrites + 1
  /\ worker' = [worker EXCEPT ![w].pc = NextPc("save_results")]
  /\ UNCHANGED <<ledger, queued, lease, crashes, expiries, enqueues, pvars, svars, tvars, cvars>>

\* await self.handle_error(job.job_id, str(e))
HandleError(w) ==
  /\ worker[w].pc = "handle_error"
  /\ ledger' = markError(ledger, worker[w].err)
  /\ IF ledger' # ledger
     THEN transitions' = transitions + 1 /\ Publish(Event(ledger'))
     ELSE UNCHANGED <<pvars, svars, tvars>>
  /\ worker' = [worker EXCEPT ![w].pc = "done"]
  /\ UNCHANGED <<queued, lease, artifactWrites, crashes, expiries, enqueues, cvars>>

\* process_audio_task returns; the delivery is acknowledged late, after the return.
TaskReturn(w) ==
  /\ worker[w].pc = "done"
  /\ worker' = [worker EXCEPT ![w] = Idle]
  /\ lease' = IF lease = w THEN NoWorker ELSE lease
  /\ UNCHANGED <<ledger, queued, artifactWrites, crashes, expiries, enqueues, pvars, svars, tvars, cvars>>

\* The worker process dies: nothing is acknowledged, the lease stays until it expires.
Crash(w) ==
  /\ Running(w)
  /\ crashes < MaxCrashes
  /\ crashes' = crashes + 1
  /\ worker' = [worker EXCEPT ![w] = Idle]
  /\ UNCHANGED <<ledger, queued, lease, artifactWrites, expiries, enqueues, pvars, svars, tvars, cvars>>

WorkerStep(w) ==
  \/ UpdateProgress(w)
  \/ StepFails(w)
  \/ SaveResults(w)
  \/ HandleError(w)
  \/ TaskReturn(w)

\* ------------------------------------------------------------------ client
NoData == [status |-> "none"]

\* The job FileUpload hands to App (and useUploadFile writes into the query cache).
InitialJob ==
  [status |-> "pending", progress |-> 0, stage |-> NoStage, errorMessage |-> NoMsg]

getJobStatus_Stale(job) ==
  [status |-> create.status, progress |-> create.progress,
   stage |-> create.stage, errorMessage |-> create.error_message]

\* GET /transcription/jobs/{id}: the gateway reads the ledger.
getJobStatus(job) ==
  [status |-> job.status, progress |-> job.progress,
   stage |-> job.stage, errorMessage |-> job.error_message]

\* GET /transcription/jobs/{id}/result: valid only once status == completed.
NotFound == [status |-> "NotFound"]

getJobResult(job) ==
  IF job.status = "completed" THEN [status |-> "completed"] ELSE NotFound

\* useJobStatus: refetchInterval(data) is 1000 until the data is terminal.
refetchInterval_Always(data) == TRUE

refetchInterval_Never(data) == FALSE

refetchInterval(data) == ~Terminal(data.status)

\* useJobResult(job.id): enabled: !!jobId
useJobResult_enabled(job) == job.status # "none"

\* ProcessingStatus, the useWebSocket callback: onJobUpdate({...job, status,
\* progress, stage}) with the job prop of the render that called connect().
onProgressUpdate(update) ==
  [InitialJob EXCEPT !.status = update.status, !.progress = update.progress,
                     !.stage = update.stage]

\* ws.current.onclose: window.setTimeout(() => connect(), 2000), unconditionally.
onclose_NoReconnect(timers) == timers

onclose(timers) == timers + 1

\* ws.current.onopen: the gateway accepted the connection; its subscription to
\* the job's channel succeeded or failed.
WsOpen ==
  /\ wsState = "connecting"
  /\ wsState' = "open"
  /\ subscribed' \in BOOLEAN
  /\ inbox' = <<>>
  /\ srvClosed' = FALSE
  /\ isConnected' = TRUE
  /\ UNCHANGED <<bvars, svars, tvars, mounted, orphans, closing, connects, observed, reconnectTimer, drops, clientJob, jobStatus, pollInFlight,
                 resultPending, resultData, resultQueries>>

\* The connection is lost (or never established): what was sent and not received
\* is gone, ws.current.onclose schedules connect() after 2 seconds.
WsDrop ==
  /\ wsState \in {"connecting", "open"}
  /\ drops < MaxDrops
  /\ drops' = drops + 1
  /\ wsState' = "closed"
  /\ reconnectTimer' = onclose(reconnectTimer)
  /\ subscribed' = FALSE
  /\ inbox' = <<>>
  /\ srvClosed' = FALSE
  /\ isConnected' = FALSE
  /\ UNCHANGED <<bvars, svars, tvars, mounted, orphans, closing, connects, observed, clientJob, jobStatus, pollInFlight,
                 resultPending, resultData, resultQueries>>

\* ws.current.onmessage
WsMessage ==
  /\ wsState = "open"
  /\ inbox # <<>>
  /\ observed' = Append(observed, Head(inbox))
  /\ clientJob' = onProgressUpdate(Head(inbox))
  /\ inbox' = Tail(inbox)
  /\ UNCHANGED <<bvars, svars, tvars, hvars, subscribed, srvClosed, wsState, reconnectTimer, drops,
                 jobStatus, pollInFlight, resultPending, resultData, resultQueries>>

\* ws.current.onclose after the gateway closed the connection.
WsServerClose ==
  /\ wsState = "open"
  /\ srvClosed
  /\ inbox = <<>>
  /\ wsState' = "closed"
  /\ reconnectTimer' = onclose(reconnectTimer)
  /\ srvClosed' = FALSE
  /\ isConnected' = FALSE
  /\ UNCHANGED <<bvars, svars, tvars, mounted, orphans, closing, connects, observed, subscribed, inbox, drops, clientJob, jobStatus, pollInFlight,
                 resultPending, resultData, resultQueries>>

\* connect(): ws.current = new WebSocket(wsUrl).  A socket ws.current held that is
\* still connecting or open is neither closed nor detached: it lives on.
connect ==
  /\ wsState' = "connecting"
  /\ orphans' = IF wsState \in {"connecting", "open"} THEN orphans + 1 ELSE orphans
  /\ subscribed' = FALSE
  /\ inbox' = <<>>
  /\ srvClosed' = FALSE

\* The reconnect timeout fires: connect().
ReconnectFire ==
  /\ reconnectTimer > 0
  /\ reconnectTimer' = reconnectTimer - 1
  /\ connect
  /\ UNCHANGED <<bvars, svars, tvars, mounted, isConnected, closing, connects, drops, observed,
                 clientJob, jobStatus, pollInFlight, resultPending, resultData,
                 resultQueries>>

\* The caller of the hook calls the connect() it returned.
Connect ==
  /\ mounted
  /\ connects < MaxConnects
  /\ connects' = connects + 1
  /\ connect
  /\ UNCHANGED <<bvars, svars, tvars, mounted, isConnected, closing, reconnectTimer, drops,
                 observed, clientJob, jobStatus, pollInFlight, resultPending, resultData,
                 resultQueries>>

Disconnect_RevokesTask ==
  /\ mounted
  /\ mounted' = FALSE
  /\ reconnectTimer' = IF reconnectTimer > 0 THEN reconnectTimer - 1 ELSE 0
  /\ closing' = IF wsState \in {"connecting", "open"} THEN closing + 1 ELSE closing
  /\ wsState' = "null"
  /\ isConnected' = FALSE
  /\ subscribed' = FALSE
  /\ inbox' = <<>>
  /\ srvClosed' = FALSE
  /\ worker' = [w \in Workers |-> Idle]
  /\ UNCHANGED <<ledger, queued, lease, artifactWrites, crashes, expiries, enqueues,
                 svars, tvars, orphans, connects, drops, observed, clientJob, jobStatus,
                 pollInFlight, resultPending, resultData, resultQueries>>

\* disconnect(), run by the effect's cleanup: clearTimeout of the timeout the ref
\* holds, ws.current.close(), ws.current = null, setIsConnected(false).  The
\* handlers of the closed socket stay attached.
Disconnect ==
  /\ mounted
  /\ mounted' = FALSE
  /\ reconnectTimer' = IF reconnectTimer > 0 THEN reconnectTimer - 1 ELSE 0
  /\ closing' = IF wsState \in {"connecting", "open"} THEN closing + 1 ELSE closing
  /\ wsState' = "null"
  /\ isConnected' = FALSE
  /\ subscribed' = FALSE
  /\ inbox' = <<>>
  /\ srvClosed' = FALSE
  /\ UNCHANGED <<bvars, svars, tvars, orphans, connects, drops, observed, clientJob, jobStatus,
                 pollInFlight, resultPending, resultData, resultQueries>>

\* The close event of a socket disconnect() closed is delivered: its onclose runs.
ClosingClose ==
  /\ closing > 0
  /\ closing' = closing - 1
  /\ isConnected' = FALSE
  /\ reconnectTimer' = onclose(reconnectTimer)
  /\ UNCHANGED <<bvars, pvars, svars, tvars, wsState, mounted, orphans, connects, drops,
                 observed, clientJob, jobStatus, pollInFlight, resultPending, resultData,
                 resultQueries>>

\* A socket ws.current no longer holds closes: its onclose runs.
OrphanClose ==
  /\ orphans > 0
  /\ orphans' = orphans - 1
  /\ isConnected' = FALSE
  /\ reconnectTimer' = onclose(reconnectTimer)
  /\ UNCHANGED <<bvars, pvars, svars, tvars, wsState, mounted, closing, connects, drops,
                 observed, clientJob, jobStatus, pollInFlight, resultPending, resultData,
                 resultQueries>>

\* A second client opens a push connection for the job and the gateway
\* subscribes it to the job's channel.
Sub2Open ==
  /\ sub2 = "idle"
  /\ sub2' = "subscribed"
  /\ inbox2' = <<>>
  /\ UNCHANGED <<bvars, pvars, tvars, cvars>>

\* The second client receives the next message of its connection.
Sub2Receive ==
  /\ inbox2 # <<>>
  /\ inbox2' = Tail(inbox2)
  /\ UNCHANGED <<bvars, pvars, tvars, cvars, sub2>>

\* The second client disconnects: what was sent to it and not received is gone.
Sub2Close ==
  /\ sub2 = "subscribed"
  /\ sub2' = "closed"
  /\ inbox2' = <<>>
  /\ UNCHANGED <<bvars, pvars, tvars, cvars>>

\* useJobStatus issues a status query; the gateway answers from the ledger.
PollSend ==
  /\ mounted
  /\ refetchInterval(jobStatus)
  /\ pollInFlight = NoData
  /\ pollInFlight' = getJobStatus(ledger)
  /\ UNCHANGED <<bvars, svars, tvars, hvars, observed, pvars, wsState, reconnectTimer, drops, clientJob, jobStatus,
                 resultPending, resultData, resultQueries>>

\* The response arrives; the effect on [jobStatus] calls onJobUpdate when the
\* query data changed.
PollReceive ==
  /\ pollInFlight # NoData
  /\ jobStatus' = pollInFlight
  /\ clientJob' = IF jobStatus' # jobStatus THEN jobStatus' ELSE clientJob
  /\ pollInFlight' = NoData
  /\ UNCHANGED <<bvars, svars, tvars, hvars, observed, pvars, wsState, reconnectTimer, drops,
                 resultPending, resultData, resultQueries>>

\* useJobResult issues the result query.
ResultSend ==
  /\ mounted
  /\ useJobResult_enabled(clientJob)
  /\ ~resultPending
  /\ resultData = NoData
  /\ resultQueries < MaxResultQueries
  /\ resultQueries' = resultQueries + 1
  /\ resultPending' = TRUE
  /\ UNCHANGED <<bvars, svars, tvars, hvars, observed, pvars, wsState, reconnectTimer, drops, clientJob, jobStatus,
                 pollInFlight, resultData>>

\* The gateway answers the result query.
ResultRespond ==
  /\ resultPending
  /\ resultPending' = FALSE
  /\ resultData' = IF getJobResult(ledger) = NotFound THEN NoData ELSE getJobResult(ledger)
  /\ UNCHANGED <<bvars, svars, tvars, hvars, observed, pvars, wsState, reconnectTimer, drops, clientJob, jobStatus,
                 pollInFlight, resultQueries>>

InitBackend ==
  /\ ledger = create
  /\ queued = FALSE
  /\ lease = NoWorker
  /\ worker = [w \in Workers |-> Idle]
  /\ artifactWrites = 0
  /\ crashes = 0 /\ expiries = 0 /\ enqueues = 0

InitPush ==
  /\ subscribed = FALSE
  /\ inbox = <<>>
  /\ srvClosed = FALSE
  /\ sub2 = "idle"
  /\ inbox2 = <<>>
  /\ transitions = 0
  /\ missed = FALSE

InitClient ==
  /\ wsState = "connecting"
  /\ reconnectTimer = 0
  /\ mounted = TRUE
  /\ isConnected = FALSE
  /\ orphans = 0
  /\ closing = 0
  /\ connects = 0
  /\ drops = 0
  /\ observed = <<>>
  /\ clientJob = InitialJob
  /\ jobStatus = InitialJob
  /\ pollInFlight = NoData
  /\ resultPending = FALSE
  /\ resultData = NoData
  /\ resultQueries = 0

Init == InitBackend /\ InitPush /\ InitClient

\* The backend alone: N workers, crashes, lease expiry, resubmission.
Next ==
  \/ Upload
  \/ Enqueue
  \/ LeaseExpireDead
  \/ LeaseExpireSlow
  \/ \E w \in Workers : Dequeue(w)
  \/ \E w \in Workers : WorkerStep(w)
  \/ \E w \in Workers : Crash(w)

Spec == Init /\ [][Next]_vars

\* Celery runs a started task to its end, hands a queued item to an idle worker,
\* and the broker's timer restores the delivery of a dead worker.
Fairness ==
  /\ \A w \in Workers : WF_vars(WorkerStep(w))
  /\ \A w \in Workers : WF_vars(Dequeue(w))
  /\ WF_vars(LeaseExpireDead)

FairSpec == Spec /\ Fairness

\* One client watching the job while the reference deployment (one worker, no
\* crash) processes it.
ClientNext ==
  \/ Upload
  \/ Enqueue
  \/ Dequeue("w1")
  \/ WorkerStep("w1")
  \/ WsOpen
  \/ WsDrop
  \/ WsMessage
  \/ WsServerClose
  \/ ReconnectFire
  \/ PollSend
  \/ PollReceive

ClientSpec == Init /\ [][ClientNext]_vars

\* The same deployment with the push connection alone (no polling).
PushNext ==
  \/ Upload
  \/ Enqueue
  \/ Dequeue("w1")
  \/ WorkerStep("w1")
  \/ WsOpen
  \/ WsDrop
  \/ WsMessage
  \/ WsServerClose
  \/ ReconnectFire

PushSpec == Init /\ [][PushNext]_vars

\* The browser fires a pending timeout and delivers the messages and the close
\* of a socket, and the gateway accepts a connection that is not lost first.
PushFairness ==
  /\ WF_vars(ReconnectFire)
  /\ WF_vars(WsOpen)
  /\ WF_vars(WsMessage)
  /\ WF_vars(WsServerClose)

FairPushSpec == PushSpec /\ PushFairness

\* The useWebSocket hook of one component on its own: no job is submitted, the
\* sockets open and close, the caller reconnects and the component unmounts.
HookNext ==
  \/ WsOpen
  \/ WsDrop
  \/ ReconnectFire
  \/ Connect
  \/ Disconnect
  \/ ClosingClose
  \/ OrphanClose

HookSpec == Init /\ [][HookNext]_vars

\* The same deployment with a client that polls, holds a push connection and
\* drops its interest in the job (the component unmounts).
DropNext ==
  \/ Upload
  \/ Enqueue
  \/ Dequeue("w1")
  \/ WorkerStep("w1")
  \/ WsOpen
  \/ PollSend
  \/ PollReceive
  \/ Disconnect
  \/ ClosingClose

DropSpec == Init /\ [][DropNext]_vars

\* Celery hands the queued item to the worker and runs the task.
DropFairness ==
  /\ WF_vars(Dequeue("w1"))
  /\ WF_vars(WorkerStep("w1"))

FairDropSpec == DropSpec /\ DropFairness

\* Two workers on the queue, a lease that can run out on a slow holder, and the
\* connection of a push subscriber with the events sent on it.
RaceNext ==
  \/ Upload
  \/ Enqueue
  \/ LeaseExpireSlow
  \/ \E w \in Workers : Dequeue(w)
  \/ \E w \in Workers : WorkerStep(w)
  \/ WsOpen

RaceSpec == Init /\ [][RaceNext]_vars

\* The same deployment with two push subscribers of the job's channel.
FanoutNext ==
  \/ Upload
  \/ Enqueue
  \/ Dequeue("w1")
  \/ WorkerStep("w1")
  \/ WsOpen
  \/ WsMessage
  \/ WsDrop
  \/ Sub2Open
  \/ Sub2Receive
  \/ Sub2Close

FanoutSpec == Init /\ [][FanoutNext]_vars

\* The same deployment seen through polling, with a push connection opened on
\* the side (what arrives on it is of no concern here).
FallbackNext ==
  \/ Upload
  \/ Enqueue
  \/ Dequeue("w1")
  \/ WorkerStep("w1")
  \/ WsOpen
  \/ PollSend
  \/ PollReceive

FallbackSpec == Init /\ [][FallbackNext]_vars

\* Celery runs the task, and the query client fires its interval and receives the
\* answer.
FallbackFairness ==
  /\ WF_vars(Dequeue("w1"))
  /\ WF_vars(WorkerStep("w1"))
  /\ WF_vars(PollSend)
  /\ WF_vars(PollReceive)

FairFallbackSpec == FallbackSpec /\ FallbackFairness

\* The same deployment with the client's status and result queries (no push).
ResultNext ==
  \/ Upload
  \/ Enqueue
  \/ Dequeue("w1")
  \/ WorkerStep("w1")
  \/ PollSend
  \/ PollReceive
  \/ ResultSend
  \/ ResultRespond

ResultSpec == Init /\ [][ResultNext]_vars

\* The scheduler runs the worker, and the browser runs the client's queries and
\* delivers their responses.
ResultFairness ==
  /\ WF_vars(Dequeue("w1"))
  /\ WF_vars(WorkerStep("w1"))
  /\ WF_vars(PollSend)
  /\ WF_vars(PollReceive)
  /\ WF_vars(ResultSend)
  /\ WF_vars(ResultRespond)

FairResultSpec == ResultSpec /\ ResultFairness

\* {isCompleted && jobResult && (...download links...)} in ProcessingStatus, with
\* currentJob = jobStatus || job.
DownloadLinksShown ==
  /\ (IF jobStatus # NoData THEN jobStatus ELSE clientJob).status = "completed"
  /\ resultData # NoData

\* {currentJob.status === 'completed' && currentJob.result && (<ExportOptions/>)}
\* in App: neither the poll effect nor the push callback gives the job a result.
ExportOptionsShown ==
  /\ clientJob.status = "completed"
  /\ "result" \in DOMAIN clientJob

\* ------------------------------------------------------------------ claims
\* C1: terminal statuses are absorbing.  Once the ledger status is completed or
\* error, no transition or markError call of any worker attempt (a redelivered one
\* included) changes status, stage, progress or error_message.
C1_TerminalAbsorbing ==
  [][Terminal(ledger.status) =>
       /\ ledger'.status = ledger.status
       /\ ledger'.stage = ledger.stage
       /\ ledger'.progress = ledger.progress
       /\ ledger'.error_message = ledger.error_message]_vars

\* A later attempt ran on the completed job: its transition was rejected and its
\* markError call has returned.
C1_Witness ==
  /\ ledger.status = "completed"
  /\ \E w \in Workers : worker[w].pc = "done" /\ worker[w].err = InvalidTransitionMsg

\* C2: the ledger's progress never decreases from one ledger state to the next,
\* crashes and redeliveries included, and always stays within 0..100.
C2_ProgressMonotone ==
  /\ [](ledger.progress \in 0..100)
  /\ [][ledger'.progress >= ledger.progress]_vars

\* C3: progress is 100 exactly when the status is completed.
C3_HundredIffCompleted == (ledger.progress = 100) <=> (ledger.status = "completed")

C3_Witness == ledger.status = "completed" /\ ledger.progress = 100 /\ artifactWrites > 0

\* C4: at every moment the job has at most one active processing worker attempt,
\* also when its lease expires while the original worker is still running.
C4_AtMostOneAttempt == Cardinality(ActiveAttempts) <= 1

\* C5: enqueue is idempotent per job id.  An enqueue of a job that is queued or in
\* flight leaves the queue unchanged, the job never has two active attempts, and
\* its artifact set is written at most once.
C5_EnqueueIdempotent ==
  /\ [][(enqueues' # enqueues /\ (queued \/ lease # NoWorker))
          => (queued' = queued /\ lease' = lease)]_vars
  /\ [](Cardinality(ActiveAttempts) <= 1 /\ artifactWrites <= 1)

ClientRank(s) == IF Terminal(s) THEN 4 ELSE StatusRank(s)

\* C6: artifact retrieval succeeds only for a completed job, and the client issues
\* the result query only for a completed job.
C6_ResultOnlyWhenCompleted ==
  /\ resultData # NoData => ledger.status = "completed"
  /\ resultPending => ledger.status = "completed"

\* Nothing more can reach the client: the job is terminal, polling has stopped on
\* a terminal response and no push message is on its way.
Quiescent ==
  /\ Terminal(ledger.status)
  /\ Terminal(jobStatus.status)
  /\ pollInFlight = NoData
  /\ inbox = <<>>

\* C7: convergence.  A client that lost its push connection and reconnected holds,
\* once nothing more can reach it, the terminal status the poll-only client holds
\* (the ledger's).
C7_Convergence ==
  (Quiescent /\ drops > 0 /\ wsState = "open") => clientJob.status = ledger.status

\* C9: in the client's job state the progress never decreases and the status never
\* moves to an earlier status, for every interleaving of push events and poll
\* responses.
C9_ClientMonotone ==
  [][/\ clientJob'.progress >= clientJob.progress
     /\ ClientRank(clientJob'.status) >= ClientRank(clientJob.status)]_vars

\* C10: once the client's job state holds a terminal status, no later push event
\* or poll response changes that status.
C10_ClientTerminalSticks ==
  [][Terminal(clientJob.status) => clientJob'.status = clientJob.status]_vars

\* C11: once the job is terminal, the client has observed the terminal status and
\* the gateway has closed the push connection (no network loss involved), the
\* client opens no new push connection for the job.
C11_NoReconnectAfterTerminal ==
  [][(/\ Terminal(ledger.status)
      /\ Terminal(clientJob.status)
      /\ drops = 0
      /\ wsState = "closed") => wsState' = "closed"]_vars

C13_ReconnectAlways ==
  /\ [][(wsState # "closed" /\ wsState' = "closed")
          => reconnectTimer' = reconnectTimer + 1]_vars
  /\ [](reconnectTimer <= 1)
  /\ (wsState = "closed" /\ ~Terminal(ledger.status)) ~> (wsState = "open")

\* Two attempts in a row were lost and the third one connected, the job not yet
\* terminal.
C13_Witness ==
  /\ drops >= 2
  /\ wsState = "open"
  /\ reconnectTimer = 0
  /\ ~Terminal(ledger.status)

\* C14: an attempt started by a redelivery after a crash continues from the
\* ledger's last durable stage: it is never positioned at the update of a stage
\* earlier than the one the ledger records.
C14_ResumeFromStage ==
  (crashes > 0 /\ expiries = 0) =>
    \A w \in Workers :
      worker[w].pc \in UpdatePcs => StageRank(worker[w].pc) >= StageRank(ledger.stage)

\* C15: artifacts are write-once.  After any sequence of enqueues, crashes and
\* redeliveries the job's export set has been stored at most once (the job went
\* past generating_exports at most once, each (job_id, format) key was put at most
\* once), and it has been stored only for a job that reached the processing status
\* of generating_exports.
C15_ArtifactsWriteOnce ==
  /\ artifactWrites <= 1
  /\ artifactWrites > 0 => StatusRank(ledger.status) >= StatusRank("processing")

\* The update a worker at an update position is about to make is one the ledger
\* must reject: the job is terminal or the new status is earlier than the current.
MustReject(w) ==
  /\ worker[w].pc \in UpdatePcs
  /\ \/ Terminal(ledger.status)
     \/ StatusRank(StatusOf(worker[w].pc)) < StatusRank(ledger.status)

C17_ErrorState ==
  [][\A w \in Workers :
       (/\ worker[w].pc = "handle_error"
        /\ worker'[w].pc = "done"
        /\ ~Terminal(ledger.status))
         => /\ ledger'.status = "error"
            /\ ledger'.progress = ledger.progress
            /\ ledger'.error_message = worker[w].err
            /\ ledger'.completed_at
            /\ getJobResult(ledger') = NotFound]_vars

\* The job failed while transcribing: error, with the progress of that stage.
C17_Witness ==
  /\ ledger.status = "error"
  /\ ledger.stage = "transcribing"
  /\ ledger.progress = StageProgress("transcribing")
  /\ ledger.error_message = FailureMsg
  /\ ledger.completed_at

\* C18: in every reachable ledger state the job's error_message is non-empty
\* exactly when its status is error.
C18_ErrorMessageIffError == (ledger.error_message # NoMsg) <=> (ledger.status = "error")

\* The wire shape of a ledger state, and the stages of a run without failure.
Wire(job) == [status |-> job.status, progress |-> job.progress, stage |-> job.stage]

FullRun == <<"uploading", "validating", "source_separation", "transcribing",
             "generating_exports", "completed">>

\* C19: a push subscriber connected before the first transition, with no publish
\* or connection failure, is sent exactly one event per successful ledger
\* transition, in transition order (each event is appended after the earlier ones
\* and carries the state its transition wrote), and has observed the six events
\* of the full run once the completed job's events are all received; and the
\* state a status query returns changes only by a successful transition, so a
\* poll returns what the latest one wrote.
C19_OneEventPerTransition ==
  /\ []((~missed /\ drops = 0)
         => /\ Len(observed \o inbox) = transitions
            /\ transitions > 0 => (observed \o inbox)[transitions] = Wire(ledger)
            /\ (ledger.status = "completed" /\ inbox = <<>>)
                 => [i \in 1..Len(observed) |-> observed[i].stage] = FullRun)
  /\ [][(~missed' /\ drops' = 0)
          => SubSeq(observed' \o inbox', 1, Len(observed \o inbox)) = observed \o inbox]_vars
  /\ [][getJobStatus(ledger') # getJobStatus(ledger)
          => transitions' = transitions + 1]_vars

\* The subscriber has received the six events of a completed run, the last one
\* being the completed event, and the gateway has closed the connection.
C19_Witness ==
  /\ ~missed /\ drops = 0
  /\ ledger.status = "completed"
  /\ transitions = Len(FullRun)
  /\ Len(observed) = Len(FullRun)
  /\ observed[Len(observed)].status = "completed"
  /\ inbox = <<>>

\* C20: on a push connection the terminal message is the last message sent (the
\* gateway has closed its side and relays nothing more on it), and the connection
\* does not stay open after it: the client's socket closes once the terminal
\* message is delivered.
C20_CloseAfterTerminal ==
  /\ [](\A i \in 1..Len(inbox) :
          Terminal(inbox[i].status) => (i = Len(inbox) /\ srvClosed /\ ~subscribed))
  /\ [][(srvClosed /\ wsState' = wsState) => (Len(inbox') <= Len(inbox))]_vars
  /\ (wsState = "open" /\ inbox # <<>> /\ Terminal(inbox[Len(inbox)].status))
       ~> (wsState = "closed")

\* The terminal message was delivered and the connection then closed from the
\* server side, with no network loss.
C20_Witness ==
  /\ drops = 0
  /\ observed # <<>>
  /\ Terminal(observed[Len(observed)].status)
  /\ wsState = "closed"
  /\ reconnectTimer = 1

C22_SubscriptionFailure ==
  (wsState = "open" /\ ~subscribed /\ ActiveAttempts # {})
    ~> (/\ Terminal(ledger.status)
        /\ jobStatus = getJobStatus(ledger)
        /\ clientJob.status = ledger.status)

\* The connection is open without a subscription, nothing was ever sent on it,
\* and the client holds the completed job from its polls.
C22_Witness ==
  /\ wsState = "open"
  /\ ~subscribed
  /\ inbox = <<>>
  /\ ledger.status = "completed"
  /\ clientJob.status = "completed"

\* C27: after disconnect() has run the hook is quiescent for the job id: no
\* reconnect timeout is pending or gets scheduled and no WebSocket is opened,
\* also when the close event of the socket disconnect() closed comes afterwards.
C27_DisconnectQuiescent ==
  ~mounted => (reconnectTimer = 0 /\ wsState = "null")

\* Sockets of the hook that are connecting or open.
LiveSockets == (IF wsState \in {"connecting", "open"} THEN 1 ELSE 0) + orphans

\* C28: one useWebSocket instance has at every moment at most one WebSocket
\* connecting or open and at most one reconnect timeout pending, whatever the
\* sequence of connect(), disconnect(), open, close and timeout events, and
\* isConnected is true exactly when that socket is open.
C28_SingleSocket ==
  /\ LiveSockets <= 1
  /\ reconnectTimer <= 1
  /\ isConnected <=> (wsState = "open")

\* C23: a client dropping its interest in the job (its poll stops, its push
\* connection is closed) leaves the ledger, the queue and the worker attempt as
\* they are, as does every other step of the client, and the job of an attempt in
\* flight reaches its terminal status with no client watching.
C23_ClientDropNoEffect ==
  /\ [][(\/ mounted' # mounted
          \/ wsState' # wsState
          \/ closing' # closing
          \/ pollInFlight' # pollInFlight) => UNCHANGED bvars]_vars
  /\ [](~mounted => ~ENABLED PollSend)
  /\ (~mounted /\ ActiveAttempts # {}) ~> Terminal(ledger.status)

\* The job completed after the client had gone: the client's last poll still
\* shows it in progress.
C23_Witness ==
  /\ ~mounted
  /\ closing = 0
  /\ ledger.status = "completed"
  /\ jobStatus.status = "processing"

\* C24: the ledger write of a transition precedes the publish of its event: at
\* the moment a subscriber receives an event (and for every event on its way),
\* the ledger holds a state at least as advanced as the event's, in status and in
\* progress.
C24_LedgerBeforePublish ==
  \A i \in 1..Len(inbox) :
    /\ StatusRank(ledger.status) >= StatusRank(inbox[i].status)
    /\ ledger.progress >= inbox[i].progress

\* C25: the event of a transition is delivered on every connection subscribed at
\* the moment it is published, each subscriber receives, drops and reconnects on
\* its own without touching the other's connection, and a connection starts
\* empty and only ever grows by the event of the transition happening now, so a
\* subscriber that joins after an event never receives that event.
C25_FanOutNoReplay ==
  /\ [][(Len(inbox') > Len(inbox) /\ sub2 = "subscribed")
          => inbox2' = Append(inbox2, Event(ledger'))]_vars
  /\ [][(Len(inbox2') > Len(inbox2) /\ subscribed)
          => inbox' = Append(inbox, Event(ledger'))]_vars
  /\ [][(Len(inbox') < Len(inbox) \/ (subscribed' # subscribed /\ transitions' = transitions))
          => UNCHANGED svars]_vars
  /\ [][(Len(inbox2') < Len(inbox2) \/ (sub2' # sub2 /\ transitions' = transitions))
          => UNCHANGED pvars]_vars
  /\ [][(~subscribed /\ subscribed') => inbox' = <<>>]_vars
  /\ [][(sub2 # "subscribed" /\ sub2' = "subscribed") => inbox2' = <<>>]_vars
  /\ [][Len(inbox') > Len(inbox)
          => (transitions' = transitions + 1 /\ inbox' = Append(inbox, Event(ledger')))]_vars
  /\ [][Len(inbox2') > Len(inbox2)
          => (transitions' = transitions + 1 /\ inbox2' = Append(inbox2, Event(ledger')))]_vars

\* Both clients are subscribed; the second joined after the first events and
\* holds fewer events than there were transitions; the first has received the
\* event that is still waiting on the second connection.
C25_Witness ==
  /\ subscribed
  /\ sub2 = "subscribed"
  /\ inbox = <<>>
  /\ observed # <<>>
  /\ inbox2 # <<>>
  /\ Len(inbox2) < Len(observed)
  /\ inbox2[Len(inbox2)] = observed[Len(observed)]

\* C26: in every ledger snapshot and every progress event a stage is present
\* only while the status is processing, and within processing the stage only
\* moves forward. Stated for the stages process_audio reports: the stage the
\* submission writes before any worker runs is left aside.
C26_StageOnlyWhileProcessing ==
  /\ [](ledger.stage \notin {NoStage, "uploading"} => ledger.status = "processing")
  /\ [](\A i \in 1..Len(inbox) :
          inbox[i].stage \notin {NoStage, "uploading"} => inbox[i].status = "processing")
  /\ [][(ledger.status = "processing" /\ ledger'.status = "processing")
          => StageRank(ledger'.stage) >= StageRank(ledger.stage)]_vars

\* C29: applying a push update changes only status, progress and stage of the
\* client's job: errorMessage keeps the value the client held, a value learned
\* from a poll response after the connection was opened included.
C29_PushUpdateFrame ==
  [][observed' # observed => clientJob'.errorMessage = clientJob.errorMessage]_vars

\* C30: once the client's job is completed, the client eventually issues the
\* result query, holds the result data and presents the download links.
C30_ResultAfterCompleted ==
  (clientJob.status = "completed")
    ~> (resultData # NoData /\ (DownloadLinksShown \/ ExportOptionsShown))

====
